---- MODULE Spec2Model ----
(***************************************************************************)
(* Escalation-and-learning engine of the voice receptionist backend:       *)
(* the help-request (escalation) ledger, the knowledge base, the call      *)
(* records and the answering engine of backend/app.                        *)
(*                                                                         *)
(* Text is a string; str.lower() and the substring test `a in b` are       *)
(* computed character by character.  An optional attribute (None in       *)
(* Python, a missing attribute of a DynamoDB item) is a sequence of length *)
(* 0; a present one is <<value>>.                                          *)
(*                                                                         *)
(* Every handler is one action: the handlers are coroutines, but the       *)
(* store client (boto3) is called synchronously inside them, so a handler  *)
(* has no suspension point at which another task of the event loop runs.   *)
(***************************************************************************)
EXTENDS Integers, Sequences, FiniteSets, TLC

(***************************************************************************)
(* Text literals of the source: settings.SALON_INFO and the phrases of     *)
(* services/ai_agent.py.                                                   *)
(***************************************************************************)
SALON_NAME == "Elegant Touch Salon"

SALON_ADDRESS == "123 Main Street, Downtown"

SALON_HOURS == "Monday-Friday: 9am-7pm, Saturday: 10am-5pm, Sunday: Closed"

\* ', '.join(salon_info['services'])
SALON_SERVICES_JOINED == "Haircut, Coloring, Styling, Manicure, Pedicure"

ESCALATION_PHRASE == "Let me check with my supervisor and get back to you."

(***************************************************************************)
(* Questions callers ask and answers supervisors post (inputs).            *)
(***************************************************************************)
Q_HOURS == "What are your hours?"

Q_HOUR_WORD == "HOURS"

Q_DISCOUNT == "Do you offer student discounts?"

Q_LOCATION == "Where are you located?"

Q_SERVICES == "What services do you offer?"

Q_PARKING == "Do you have parking?"

A_DISCOUNT == "Yes, 15% off with student ID"

A_OTHER == "No"

(***************************************************************************)
(* Optional values.                                                        *)
(***************************************************************************)
None == <<>>

Some(v) == <<v>>

EmptyText == ""

(***************************************************************************)
(* str.lower() and the substring test of Python.                           *)
(***************************************************************************)
UPPER == "ABCDEFGHIJKLMNOPQRSTUVWXYZ"

LOWER == "abcdefghijklmnopqrstuvwxyz"

\* The lower-case letter of each upper-case letter.
LowerOf ==
    [c \in {SubSeq(UPPER, i, i) : i \in 1..Len(UPPER)} |->
        LET i == CHOOSE i \in 1..Len(UPPER) : SubSeq(UPPER, i, i) = c
        IN  SubSeq(LOWER, i, i)]

\* c is a string of one character.
LowerChar(c) == IF c \in DOMAIN LowerOf THEN LowerOf[c] ELSE c

RECURSIVE Lower(_)
Lower(s) ==
    IF Len(s) = 0 THEN "" ELSE LowerChar(SubSeq(s, 1, 1)) \o Lower(Tail(s))

\* Python's `needle in hay` for strings; the empty string is in every string.
Contains(needle, hay) ==
    \E i \in 0..(Len(hay) - Len(needle)) :
        SubSeq(hay, i + 1, i + Len(needle)) = needle

(***************************************************************************)
(* Program constants.                                                      *)
(***************************************************************************)
HELP_REQUEST_TIMEOUT_SECONDS == 3600

\* Default `limit` of HelpRequest.get_by_status, the one check_timeouts uses.
STATUS_QUERY_LIMIT == 50

\* Default `limit` of KnowledgeBase.get_all, the one find_similar_question uses.
KNOWLEDGE_SCAN_LIMIT == 100

\* `confidence or 1.0` of KnowledgeBase.__init__.
DEFAULT_CONFIDENCE == 1

\* _websocket_listener: retry_delay = 1 and max_retry_delay = 60.
INITIAL_RETRY_DELAY == 1

MAX_RETRY_DELAY == 60

(***************************************************************************)
(* Bounds of the model.                                                    *)
(***************************************************************************)
\* The clock (int(time.time())) when the process starts; positive.
StartTime == 1

\* Escalations, knowledge entries and transcript entries the small
\* specifications let the stores hold.
MaxRequests == 2

MaxKnowledge == 2

MaxTranscript == 3

\* The clock advances by the timeout or by one second more, so that an
\* escalation is seen at an age of exactly the timeout and of one second over.
ClockSteps == {HELP_REQUEST_TIMEOUT_SECONDS, HELP_REQUEST_TIMEOUT_SECONDS + 1}

MaxNow == StartTime + HELP_REQUEST_TIMEOUT_SECONDS + 1

\* The phone number a customer calls from.
PhoneOf(customer) ==
    IF customer = "customer_123" THEN "+15551234567" ELSE "+15559876543"

\* Call durations reported by the transport, in milliseconds.
DurationsMs == {60000}

CallIds == {"call_1", "call_2"}

CustomerOfCall(call_id) ==
    IF call_id = "call_1" THEN "customer_123" ELSE "customer_456"

\* Durations of the call-ledger specification (SpecCall): under one second
\* and one minute.
CallDurationsMs == {500, 60000}

\* Inputs of the escalation-ledger specification (Spec): escalations of one
\* question; the supervisor posts any str, "" included.
LedgerQuestions == {Q_DISCOUNT}

LedgerAnswers == {EmptyText, A_DISCOUNT}

\* Inputs of the answering specification (SpecAnswer): a question a rule
\* answers, one contained in it once lowered, and one no rule answers.
AnswerQuestions == {Q_HOURS, Q_HOUR_WORD, Q_DISCOUNT}

AnswerAnswers == {A_DISCOUNT, A_OTHER}

VARIABLES
    now,            \* int(time.time())
    faults,         \* whether the store and the notifier may fail at this time
    livekitSip,     \* AIAgent.livekit_sip is set (LIVEKIT_ENABLED and SIP_ENABLED)
    helpRequests,   \* table HelpRequests: request_id (1..n) -> item
    knowledge,      \* table KnowledgeBase: the items in scan order
    calls,          \* table CallRecords: call_id -> item
    last,           \* the last operation: its arguments, result and messages
    retry_delay,    \* _websocket_listener: retry_delay
    ws_connection,  \* LiveKitSipIntegration.ws_connection is set
    listener,       \* _websocket_listener: "connect", "receive" or "sleep"
    waits,          \* waits of the listener since retry_delay was last set to 1
    active_calls,   \* LiveKitSipIntegration.active_calls: call_id -> dict
    sweeper,        \* the check_help_request_timeouts task: "running" or "stopped"
    active_streams, \* AudioProcessor.active_streams: call_id -> its stream dict
    streams,        \* the stream dicts made so far, registered or not
    loops,          \* the _process_audio_stream tasks, one per stream made
    timers          \* the _handle_silence_timeout tasks made so far

\* The event listener, and with it the sweeper task.
listenerVars == <<retry_delay, ws_connection, listener, waits, active_calls>>

\* The audio processor: its dict of streams and the tasks it has created.
audioVars == <<active_streams, streams, loops, timers>>

taskVars == <<listenerVars, sweeper, audioVars>>

vars == <<now, faults, livekitSip, helpRequests, knowledge, calls, last, taskVars>>

\* The outcomes of one store operation: it may fail only in a run with faults.
StoreOutcomes == IF faults THEN BOOLEAN ELSE {TRUE}

\* The outcomes of one delivery by the notifier (Twilio), likewise.
NotifierOutcomes == IF faults THEN BOOLEAN ELSE {TRUE}

Min(a, b) == IF a <= b THEN a ELSE b

(***************************************************************************)
(* Answering engine: AIAgent.check_simple_questions, find_similar_question *)
(* and answer_question.                                                    *)
(***************************************************************************)
\* f"Our hours are {hours}" etc.: None, or Some(templated answer).
CheckSimpleQuestions(question) ==
    LET question_lower == Lower(question)
        has(kw) == Contains(kw, question_lower)
    IN  IF (has("what") /\ has("hour"))
           \/ (has("when") /\ (has("open") \/ has("close")))
        THEN Some("Our hours are " \o SALON_HOURS)
        ELSE IF (has("where") /\ (has("located") \/ has("location")))
                \/ (has("what") /\ has("address"))
        THEN Some("We're located at " \o SALON_ADDRESS)
        ELSE IF has("what services") \/ has("services do you offer")
        THEN Some("We offer " \o SALON_SERVICES_JOINED)
        ELSE None

\* KnowledgeBase.get_all(limit): table.scan(Limit=limit); [] when it fails.
GetAll(table, limit, ok) ==
    IF ok THEN SubSeq(table, 1, Min(limit, Len(table))) ELSE <<>>

\* The test of the loop of find_similar_question.
QuestionMatches(question_lower, entry) ==
    LET entry_question_lower == Lower(entry.question)
    IN  Contains(question_lower, entry_question_lower)
        \/ Contains(entry_question_lower, question_lower)

\* The loop of find_similar_question: it returns at the first entry, in the
\* order of the scan, that matches.
FirstMatch(entries, question_lower) ==
    LET matching == {i \in 1..Len(entries) :
                        QuestionMatches(question_lower, entries[i])}
    IN  IF matching = {} THEN None
        ELSE Some(entries[CHOOSE i \in matching : \A j \in matching : i <= j])

\* find_similar_question: the first entry of the scan that matches, or None.
FindSimilarQuestion(table, question, ok) ==
    LET knowledge_entries == GetAll(table, KNOWLEDGE_SCAN_LIMIT, ok)
        question_lower == Lower(question)
    IN  FirstMatch(knowledge_entries, question_lower)

\* answer_question with the basic questions consulted before the knowledge base.
AnswerQuestionRulesFirst(table, question, ok) ==
    LET knowledge_match == FindSimilarQuestion(table, question, ok)
        simple_answer == CheckSimpleQuestions(question)
    IN  IF simple_answer # None /\ simple_answer[1] # EmptyText
        THEN [answer |-> simple_answer[1], needs_help |-> FALSE]
        ELSE IF knowledge_match # None
        THEN [answer |-> knowledge_match[1].answer, needs_help |-> FALSE]
        ELSE [answer |-> ESCALATION_PHRASE, needs_help |-> TRUE]

\* answer_question: knowledge base first, then the basic questions, then
\* escalation.  A KnowledgeBase object is truthy whatever its answer is.
AnswerQuestion(table, question, ok) ==
    LET knowledge_match == FindSimilarQuestion(table, question, ok)
        simple_answer == CheckSimpleQuestions(question)
    IN  IF knowledge_match # None
        THEN [answer |-> knowledge_match[1].answer, needs_help |-> FALSE]
        ELSE IF simple_answer # None /\ simple_answer[1] # EmptyText
        THEN [answer |-> simple_answer[1], needs_help |-> FALSE]
        ELSE [answer |-> ESCALATION_PHRASE, needs_help |-> TRUE]

(***************************************************************************)
(* Escalation ledger: models/help_request.py.  request_id is a uuid4; the  *)
(* model numbers the items 1, 2, ... in the order they were first saved.   *)
(***************************************************************************)
\* HelpRequest(question, call_id, customer_id, customer_phone, status="pending")
NewHelpRequest(question, call_id, customer_id, customer_phone, current_time) ==
    [question |-> question, call_id |-> call_id, customer_id |-> customer_id,
     customer_phone |-> customer_phone, status |-> "pending",
     timestamp |-> current_time, answer |-> None, resolved_at |-> None]

\* The item save() builds: answer and resolved_at only when they are truthy.
HelpRequestItem(request) ==
    [request EXCEPT
        !.answer = IF request.answer # None /\ request.answer[1] # EmptyText
                   THEN request.answer ELSE None,
        !.resolved_at = IF request.resolved_at # None /\ request.resolved_at[1] # 0
                        THEN request.resolved_at ELSE None]

\* save(): put_item replaces the whole item; a failed write leaves the table.
HelpRequestSave(table, request_id, request, ok) ==
    IF ~ok THEN table
    ELSE IF request_id \in 1..Len(table)
    THEN [table EXCEPT ![request_id] = HelpRequestItem(request)]
    ELSE Append(table, HelpRequestItem(request))

\* get_by_id() that makes up a blank request for a missing item.
HelpRequestGetOrBlank(table, request_id, ok) ==
    IF ok /\ request_id \in 1..Len(table) THEN Some(table[request_id])
    ELSE Some(NewHelpRequest(EmptyText, EmptyText, EmptyText, EmptyText, 0))

\* get_by_id(): None when the item is missing or the read fails.
HelpRequestGetById(table, request_id, ok) ==
    IF ok /\ request_id \in 1..Len(table) THEN Some(table[request_id]) ELSE None

\* StatusIndex, ScanIndexForward=False: a more recent item comes first (of two
\* items of one second, the one saved later).
MoreRecent(table, i, j) ==
    \/ table[i].timestamp > table[j].timestamp
    \/ (table[i].timestamp = table[j].timestamp /\ i > j)

\* get_by_status(status, limit): the ids of the `limit` most recent items of
\* that status; [] when the query fails.
GetByStatus(table, status, limit, ok) ==
    LET matching == {i \in 1..Len(table) : table[i].status = status}
    IN  IF ~ok THEN {}
        ELSE {i \in matching :
                Cardinality({j \in matching : MoreRecent(table, j, i)}) < limit}

\* is_timed_out() with the comparison at or above the timeout.
IsTimedOutInclusive(request, current_time) ==
    /\ request.status = "pending"
    /\ (current_time - request.timestamp) >= HELP_REQUEST_TIMEOUT_SECONDS

\* is_timed_out()
IsTimedOut(request, current_time) ==
    /\ request.status = "pending"
    /\ (current_time - request.timestamp) > HELP_REQUEST_TIMEOUT_SECONDS

\* mark_unresolved(): status = "unresolved", then save().
MarkUnresolved(table, request_id, request, ok) ==
    HelpRequestSave(table, request_id, [request EXCEPT !.status = "unresolved"], ok)

\* The requests check_timeouts() finds timed out: pending ones of the query.
TimedOutRequests(table, current_time, okQuery) ==
    {i \in GetByStatus(table, "pending", STATUS_QUERY_LIMIT, okQuery) :
        IsTimedOut(table[i], current_time)}

\* check_timeouts() that marks every request older than the timeout, whatever
\* its status.
CheckTimeoutsAnyStatus(table, current_time, okQuery, okSave) ==
    [i \in 1..Len(table) |->
        IF okQuery /\ (current_time - table[i].timestamp) > HELP_REQUEST_TIMEOUT_SECONDS
        THEN MarkUnresolved(table, i, table[i], okSave)[i]
        ELSE table[i]]

\* check_timeouts(): every timed-out request of the query is marked unresolved.
CheckTimeouts(table, current_time, okQuery, okSave) ==
    LET timed_out == TimedOutRequests(table, current_time, okQuery)
    IN  [i \in 1..Len(table) |->
            IF i \in timed_out
            THEN MarkUnresolved(table, i, table[i], okSave)[i]
            ELSE table[i]]

(***************************************************************************)
(* Knowledge base: models/knowledge_base.py.  The table is kept in scan    *)
(* order; a new item has a random uuid4 key, so it lands anywhere in it.   *)
(***************************************************************************)
\* KnowledgeBase(question, answer, source_request_id)
NewKnowledgeEntry(question_id, question, answer, source_request_id, current_time) ==
    [question_id |-> question_id, question |-> question, answer |-> answer,
     created_at |-> current_time, source_request_id |-> Some(source_request_id),
     confidence |-> DEFAULT_CONFIDENCE]

\* save() that writes over a stored entry of the same question, if there is one.
KnowledgeSaveByQuestion(table, entry, pos, ok) ==
    IF ~ok THEN table
    ELSE IF \E i \in 1..Len(table) : table[i].question = entry.question
    THEN [i \in 1..Len(table) |->
            IF table[i].question = entry.question
            THEN [entry EXCEPT !.question_id = table[i].question_id]
            ELSE table[i]]
    ELSE SubSeq(table, 1, pos - 1) \o <<entry>> \o SubSeq(table, pos, Len(table))

\* save(): put_item of a new key at scan position pos.
KnowledgeSave(table, entry, pos, ok) ==
    IF ~ok THEN table
    ELSE SubSeq(table, 1, pos - 1) \o <<entry>> \o SubSeq(table, pos, Len(table))

(***************************************************************************)
(* Call ledger: models/call_record.py.                                     *)
(***************************************************************************)
\* CallRecord(call_id, customer_id, customer_phone, status="in_progress")
NewCallRecord(customer_id, customer_phone, current_time) ==
    [customer_id |-> customer_id, customer_phone |-> customer_phone,
     timestamp |-> current_time, status |-> "in_progress",
     direction |-> "inbound", duration |-> None, transcript |-> <<>>]

\* save(): put_item replaces the whole item.
CallSave(table, call_id, call) ==
    IF call_id \in DOMAIN table
    THEN [table EXCEPT ![call_id] = call]
    ELSE [c \in DOMAIN table \cup {call_id} |->
            IF c = call_id THEN call ELSE table[c]]

\* get_by_id()
CallGetById(table, call_id) ==
    IF call_id \in DOMAIN table THEN Some(table[call_id]) ELSE None

TranscriptEntry(speaker, text, current_time) ==
    [timestamp |-> current_time, speaker |-> speaker, text |-> text]

\* add_transcript_entry() that puts the entry in front of the transcript.
WithTranscriptEntryInFront(call, speaker, text, current_time) ==
    [call EXCEPT !.transcript = <<TranscriptEntry(speaker, text, current_time)>> \o @]

\* add_transcript_entry(): the object's transcript with the entry appended.
WithTranscriptEntry(call, speaker, text, current_time) ==
    [call EXCEPT !.transcript = Append(@, TranscriptEntry(speaker, text, current_time))]

\* add_transcript_entry(): update_item SET transcript = the object's transcript.
UpdateTranscript(table, call_id, call) ==
    [table EXCEPT ![call_id].transcript = call.transcript]

\* int(duration_ms / 1000): the quotient, truncated towards zero.
SecondsOf(duration_ms) ==
    IF duration_ms >= 0 THEN duration_ms \div 1000 ELSE -((-duration_ms) \div 1000)

\* handle_call_ended with a duration of 0 seconds left out of the record.
EndedCallWithoutZero(call, duration_ms) ==
    [call EXCEPT !.status = "completed",
                 !.duration = IF SecondsOf(duration_ms) = 0 THEN None
                              ELSE Some(SecondsOf(duration_ms))]

\* handle_call_ended: the loaded record with status and duration set.
EndedCall(call, duration_ms) ==
    [call EXCEPT !.status = "completed", !.duration = Some(SecondsOf(duration_ms))]

(***************************************************************************)
(* Messages a handler sends: the spoken response into a call, the          *)
(* supervisor notification and the customer SMS.                           *)
(***************************************************************************)
Response(call_id, text) ==
    [channel |-> "response", to |-> call_id, text |-> text]

SupervisorNotification(question, customer_phone) ==
    [channel |-> "supervisor", to |-> customer_phone, text |-> question]

CustomerSms(customer_phone, question, answer) ==
    [channel |-> "sms", to |-> customer_phone, text |-> answer]

Greeting ==
    "Thank you for calling " \o SALON_NAME \o ". How can I help you today?"

\* notify_customer(help_request): the messages it sends.
NotifyCustomer(request, callTable) ==
    IF request.status # "resolved" \/ request.answer = None
       \/ request.answer[1] = EmptyText
    THEN <<>>
    ELSE IF livekitSip
            /\ CallGetById(callTable, request.call_id) # None
            /\ CallGetById(callTable, request.call_id)[1].status = "in_progress"
    THEN <<Response(request.call_id, request.answer[1])>>
    ELSE <<CustomerSms(request.customer_phone, request.question, request.answer[1])>>

(***************************************************************************)
(* Initial state: empty tables, as after startup_event on a fresh store.   *)
(***************************************************************************)
\* The tasks startup_event has created: the listener is about to connect for
\* the first time, the sweeper is running.
InitTasks ==
    /\ retry_delay = INITIAL_RETRY_DELAY
    /\ ws_connection = FALSE
    /\ listener = "connect"
    /\ waits = 0
    /\ active_calls = <<>>
    /\ sweeper = "running"
    /\ active_streams = <<>>
    /\ streams = <<>>
    /\ loops = <<>>
    /\ timers = <<>>

InitTables ==
    /\ InitTasks
    /\ now = StartTime
    /\ livekitSip = TRUE
    /\ helpRequests = <<>>
    /\ knowledge = <<>>
    /\ calls = <<>>
    /\ last = [op |-> "init"]

Init ==
    /\ InitTables
    /\ faults = FALSE

(***************************************************************************)
(* Actions: one per handler.                                               *)
(***************************************************************************)
\* time.time() moves on.
AdvanceClock(d) ==
    /\ now + d <= MaxNow
    /\ now' = now + d
    /\ last' = [op |-> "clock"]
    /\ UNCHANGED <<taskVars, faults, livekitSip, helpRequests, knowledge, calls>>

\* handle_incoming_call: the record it returns, with the greeting appended.
GreetedCall(customer_id, customer_phone, current_time) ==
    WithTranscriptEntry(NewCallRecord(customer_id, customer_phone, current_time),
                        "ai", Greeting, current_time)

\* handle_incoming_call: the table after save() and add_transcript_entry().
CallsAfterIncoming(table, call_id, customer_id, customer_phone, current_time) ==
    UpdateTranscript(
        CallSave(table, call_id, NewCallRecord(customer_id, customer_phone, current_time)),
        call_id, GreetedCall(customer_id, customer_phone, current_time))

\* handle_call_ended: the table after it; an unknown call is left alone.
CallsAfterEnded(table, call_id, duration_ms) ==
    IF CallGetById(table, call_id) = None THEN table
    ELSE CallSave(table, call_id, EndedCall(CallGetById(table, call_id)[1], duration_ms))

\* AIAgent.handle_incoming_call(call_id, customer_id, phone_number)
HandleIncomingCall(call_id, customer_id) ==
    /\ calls' = CallsAfterIncoming(calls, call_id, customer_id, PhoneOf(customer_id), now)
    /\ last' = [op |-> "incoming", call_id |-> call_id,
                result |-> Some(GreetedCall(customer_id, PhoneOf(customer_id), now)),
                messages |-> <<Response(call_id, Greeting)>>]
    /\ UNCHANGED <<taskVars, now, faults, livekitSip, helpRequests, knowledge>>

\* handle_call_ended that leaves a call that is already completed as it is.
HandleCallEndedFirstWins(call_id, duration_ms) ==
    LET call == CallGetById(calls, call_id)
    IN  /\ calls' = IF call = None \/ call[1].status = "completed" THEN calls
                    ELSE CallSave(calls, call_id, EndedCall(call[1], duration_ms))
        /\ last' = [op |-> "ended", call_id |-> call_id, duration_ms |-> duration_ms,
                    before |-> call]
        /\ UNCHANGED <<taskVars, now, faults, livekitSip, helpRequests, knowledge>>

\* AIAgent.handle_call_ended(call_id, duration_ms): a failed read gives no
\* record and a failed save() leaves the table; neither raises.
HandleCallEnded(call_id, duration_ms) ==
    \E okGet \in StoreOutcomes, okSave \in StoreOutcomes :
        LET call == IF okGet THEN CallGetById(calls, call_id) ELSE None
        IN  /\ calls' = IF okGet /\ okSave
                        THEN CallsAfterEnded(calls, call_id, duration_ms)
                        ELSE calls
            /\ last' = [op |-> "ended", call_id |-> call_id,
                        duration_ms |-> duration_ms, before |-> call]
            /\ UNCHANGED <<taskVars, now, faults, livekitSip, helpRequests, knowledge>>

\* CallRecord.complete_call(duration) on the record loaded for call_id:
\* update_item SET status, duration; False, without raising, when it fails.
CompleteCall(call_id, duration) ==
    \E ok \in StoreOutcomes :
        /\ call_id \in DOMAIN calls
        /\ calls' = IF ok
                    THEN [calls EXCEPT ![call_id].status = "completed",
                                       ![call_id].duration = Some(duration)]
                    ELSE calls
        /\ last' = [op |-> "complete", call_id |-> call_id, duration |-> duration,
                    result |-> ok]
        /\ UNCHANGED <<taskVars, now, faults, livekitSip, helpRequests, knowledge>>

\* create_help_request with the customer id and the contact exchanged.
CreateHelpRequestExchanged(table, question, call_id, customer_id, customer_phone, ok) ==
    HelpRequestSave(table, Len(table) + 1,
        NewHelpRequest(question, call_id, customer_phone, customer_id, now), ok)

\* AIAgent.create_help_request: the table after it.
CreateHelpRequest(table, question, call_id, customer_id, customer_phone, ok) ==
    HelpRequestSave(table, Len(table) + 1,
        NewHelpRequest(question, call_id, customer_id, customer_phone, now), ok)

\* process_call_question that escalates the question of a call it does not find.
ProcessUnknownCallEscalating(call_id, question) ==
    /\ helpRequests' = CreateHelpRequest(helpRequests, question, call_id,
                                         EmptyText, EmptyText, TRUE)
    /\ last' = [op |-> "process", call_id |-> call_id, question |-> question,
                result |-> None, messages |-> <<>>]
    /\ UNCHANGED <<taskVars, now, faults, livekitSip, knowledge, calls>>

\* process_call_question, `if not call`: the error is logged and None returned.
ProcessUnknownCall(call_id, question) ==
    /\ last' = [op |-> "process", call_id |-> call_id, question |-> question,
                result |-> None, messages |-> <<>>]
    /\ UNCHANGED <<taskVars, now, faults, livekitSip, helpRequests, knowledge, calls>>

\* add_transcript_entry(): the table after update_item, which a failure of
\* the store leaves as it was; the error is caught and False returned.
AddTranscriptEntry(table, call_id, call, ok) ==
    IF ok THEN UpdateTranscript(table, call_id, call) ELSE table

\* process_call_question that gives up when a transcript entry is not stored.
ProcessResultIfStored(result, okAsk, okAnswer) ==
    IF okAsk /\ okAnswer THEN Some(result) ELSE None

\* process_call_question returns the answer: the results of
\* add_transcript_entry() are not looked at.
ProcessResult(result, okAsk, okAnswer) == Some(result)

\* AIAgent.process_call_question(call_id, question)
ProcessCallQuestion(call_id, question, maxRequests) ==
    \E okGet \in StoreOutcomes, okAsk \in StoreOutcomes, okScan \in StoreOutcomes,
       okAnswer \in StoreOutcomes, okSave \in StoreOutcomes :
        LET found == IF okGet THEN CallGetById(calls, call_id) ELSE None
            result == AnswerQuestion(knowledge, question, okScan)
        IN  IF found = None
            THEN ProcessUnknownCall(call_id, question)
            ELSE LET call == found[1]
                     asked == WithTranscriptEntry(call, "customer", question, now)
                     answered == WithTranscriptEntry(asked, "ai", result.answer, now)
                 IN  /\ Len(call.transcript) + 2 <= MaxTranscript
                     /\ result.needs_help => Len(helpRequests) < maxRequests
                     /\ calls' = AddTranscriptEntry(
                                    AddTranscriptEntry(calls, call_id, asked, okAsk),
                                    call_id, answered, okAnswer)
                     /\ helpRequests' =
                            IF result.needs_help
                            THEN CreateHelpRequest(helpRequests, question, call_id,
                                    call.customer_id, call.customer_phone, okSave)
                            ELSE helpRequests
                     /\ last' = [op |-> "process", call_id |-> call_id,
                                 question |-> question,
                                 result |-> ProcessResult(result, okAsk, okAnswer),
                                 stored |-> <<okAsk, okAnswer>>,
                                 messages |->
                                    <<Response(call_id, result.answer)>> \o
                                    (IF result.needs_help
                                     THEN <<SupervisorNotification(question,
                                                call.customer_phone)>>
                                     ELSE <<>>)]
                     /\ UNCHANGED <<taskVars, now, faults, livekitSip, knowledge>>

\* AIAgent.resolve_help_request(request_id, answer)
ResolveHelpRequest(request_id, answer, maxKnowledge) ==
    \E okGet \in StoreOutcomes, okSave \in StoreOutcomes, okEntry \in StoreOutcomes :
        LET found == HelpRequestGetById(helpRequests, request_id, okGet)
        IN  IF found = None
            THEN /\ last' = [op |-> "resolve", request_id |-> request_id,
                             answer |-> answer, result |-> None, messages |-> <<>>]
                 /\ UNCHANGED <<taskVars, now, faults, livekitSip, helpRequests, knowledge, calls>>
            ELSE LET help_request == [found[1] EXCEPT !.status = "resolved",
                                                      !.answer = Some(answer)]
                     knowledge_entry ==
                        NewKnowledgeEntry(Len(knowledge) + 1, help_request.question,
                                          answer, request_id, now)
                 IN  /\ Len(knowledge) < maxKnowledge
                     /\ helpRequests' =
                            HelpRequestSave(helpRequests, request_id, help_request, okSave)
                     /\ \E pos \in 1..(Len(knowledge) + 1) :
                            knowledge' = KnowledgeSave(knowledge, knowledge_entry, pos, okEntry)
                     /\ last' = [op |-> "resolve", request_id |-> request_id,
                                 answer |-> answer, result |-> Some(help_request),
                                 messages |-> NotifyCustomer(help_request, calls)]
                     /\ UNCHANGED <<taskVars, now, faults, livekitSip, calls>>

\* A sweeper loop that a failing tick ends.
SweeperAfterTickFatal(failed) == IF failed THEN "stopped" ELSE "running"

\* check_help_request_timeouts: the tick is inside try / except Exception, and
\* check_timeouts returns 0 on an error, so the loop goes on to its sleep.
SweeperAfterTick(failed) == "running"

\* One tick of check_help_request_timeouts: HelpRequest.check_timeouts().
SweeperTick ==
    \E okQuery \in StoreOutcomes, okSave \in StoreOutcomes :
        LET timed_out == TimedOutRequests(helpRequests, now, okQuery)
            failed == ~okQuery \/ (~okSave /\ timed_out # {})
        IN  /\ sweeper = "running"
            /\ helpRequests' = CheckTimeouts(helpRequests, now, okQuery, okSave)
            /\ sweeper' = SweeperAfterTick(failed)
            /\ last' = [op |-> "sweep", count |-> Cardinality(timed_out),
                        failed |-> failed,
                        after_failure |-> (last.op = "sweep" /\ last.failed)]
            /\ UNCHANGED <<listenerVars, audioVars, now, faults, livekitSip, knowledge,
                           calls>>

\* The network becomes unreliable: operations of the store and deliveries of
\* the notifier may fail from now on.
StoreFails ==
    /\ ~faults
    /\ faults' = TRUE
    /\ UNCHANGED <<taskVars, now, livekitSip, helpRequests, knowledge, calls, last>>

\* The network recovers.
StoreRecovers ==
    /\ faults
    /\ faults' = FALSE
    /\ UNCHANGED <<taskVars, now, livekitSip, helpRequests, knowledge, calls, last>>

\* notify_supervisor: every error of the delivery is caught and logged, and
\* the result (True, or False after an error) is all the caller gets.
NotifySupervisor(delivered) == delivered

\* create_help_request that gives up when the supervisor was not notified.
CreateResultIfNotified(help_request, saved, notified) ==
    IF notified THEN Some(help_request) ELSE None

\* create_help_request returns the object it built: the results of save() and
\* of notify_supervisor() are not looked at.
CreateResult(help_request, saved, notified) == Some(help_request)

\* AIAgent.create_help_request called on its own, as scripts/demo.py does.
CreateHelpRequestCall(question, call_id, customer_id, maxRequests) ==
    \E okSave \in StoreOutcomes, delivered \in NotifierOutcomes :
        LET help_request ==
                NewHelpRequest(question, call_id, customer_id, PhoneOf(customer_id), now)
            notified == NotifySupervisor(delivered)
        IN  /\ Len(helpRequests) < maxRequests
            /\ helpRequests' = CreateHelpRequest(helpRequests, question, call_id,
                                    customer_id, PhoneOf(customer_id), okSave)
            /\ last' = [op |-> "create", request_id |-> Len(helpRequests) + 1,
                        result |-> CreateResult(help_request, okSave, notified),
                        saved |-> okSave, notified |-> notified,
                        messages |-> <<SupervisorNotification(question,
                                            PhoneOf(customer_id))>>]
            /\ UNCHANGED <<taskVars, now, faults, livekitSip, knowledge, calls>>

(***************************************************************************)
(* Event listener: integrations/livekit_sip.py.  A websocket message is    *)
(* what json.loads makes of it: no JSON, a JSON text that is not an        *)
(* object, or an object (the event) with its type, room, participant and   *)
(* track.                                                                  *)
(***************************************************************************)
NotJson == [json |-> FALSE]

JsonArray == [json |-> TRUE, object |-> FALSE]

Event(type, room, participant, track) ==
    [json |-> TRUE, object |-> TRUE, type |-> type, room |-> room,
     participant |-> participant, track |-> track]

\* event["participant"]: missing, null, or an object.
NoParticipant == [kind |-> "absent"]

NullParticipant == [kind |-> "null"]

Participant(identity, metadata) ==
    [kind |-> "object", identity |-> identity, metadata |-> metadata]

\* participant["metadata"]: a string json.loads rejects, a JSON text that is
\* not an object, or a JSON object.
InvalidMetadata == [kind |-> "invalid"]

NonObjectMetadata == [kind |-> "not_object"]

Metadata(type, callId, from) ==
    [kind |-> "object", type |-> type, callId |-> callId, from |-> from]

\* participant.get("metadata", "{}") of a participant without metadata.
EmptyMetadata == Metadata(None, None, None)

\* phone_number.replace("+", "")
RECURSIVE StripPlus(_)
StripPlus(s) ==
    IF Len(s) = 0 THEN ""
    ELSE (IF SubSeq(s, 1, 1) = "+" THEN "" ELSE SubSeq(s, 1, 1)) \o StripPlus(Tail(s))

\* The position of call_id in active_calls (a dict keeps insertion order), or 0.
ActiveIndex(ac, call_id) ==
    IF \E i \in 1..Len(ac) : ac[i].call_id = call_id
    THEN CHOOSE i \in 1..Len(ac) : ac[i].call_id = call_id
    ELSE 0

\* The first call of active_calls whose participant_id is the given one, or 0.
ActiveOfParticipant(ac, participant_id) ==
    IF \E i \in 1..Len(ac) : ac[i].participant_id = participant_id
    THEN CHOOSE i \in 1..Len(ac) :
            /\ ac[i].participant_id = participant_id
            /\ \A j \in 1..(i - 1) : ac[j].participant_id # participant_id
    ELSE 0

\* What handling a message does: whether it raised out of the handler, and
\* the active calls and the call table after it.
\* A callback the listener awaits, with its arguments.
OnCallReceived(call_id, customer_id, phone_number) ==
    [name |-> "on_call_received", call_id |-> call_id, customer_id |-> customer_id,
     phone_number |-> phone_number]

OnCallEnded(call_id, duration_ms) ==
    [name |-> "on_call_ended", call_id |-> call_id, duration_ms |-> duration_ms]

Outcome(raised, ac, table) ==
    [raised |-> raised, active_calls |-> ac, calls |-> table, callbacks |-> <<>>]

\* The outcome of a handler that has awaited a callback.
OutcomeCalling(ac, table, callback) ==
    [raised |-> FALSE, active_calls |-> ac, calls |-> table, callbacks |-> <<callback>>]

\* _handle_participant_joined(event)
ParticipantJoined(event, ac, table, current_time) ==
    LET participant == event.participant
    IN  IF participant.kind = "null" THEN Outcome(TRUE, ac, table)
        ELSE LET metadata == IF participant.kind = "absent" THEN EmptyMetadata
                             ELSE participant.metadata
             IN  IF metadata.kind # "object" THEN Outcome(FALSE, ac, table)
                 ELSE IF metadata.type # Some("sip") THEN Outcome(FALSE, ac, table)
                 ELSE LET call_id == IF metadata.callId # None THEN metadata.callId[1]
                                     ELSE "call_" \o participant.identity
                          phone_number == IF metadata.from # None THEN metadata.from[1]
                                          ELSE "unknown"
                          i == ActiveIndex(ac, call_id)
                          updated ==
                            IF i > 0
                            THEN [ac EXCEPT ![i].participant_id = Some(participant.identity),
                                            ![i].phone_number = phone_number,
                                            ![i].status = "active"]
                            ELSE Append(ac,
                                    [call_id |-> call_id, room_name |-> event.room,
                                     participant_id |-> Some(participant.identity),
                                     phone_number |-> phone_number,
                                     start_time |-> current_time, status |-> "active",
                                     end_time |-> None, duration_ms |-> None])
                      IN  OutcomeCalling(updated,
                                  CallsAfterIncoming(table, call_id, StripPlus(phone_number),
                                                     phone_number, current_time),
                                  OnCallReceived(call_id, StripPlus(phone_number),
                                                 phone_number))

\* _handle_participant_left(event)
ParticipantLeft(event, ac, table, current_time) ==
    LET participant == event.participant
    IN  IF participant.kind = "null" THEN Outcome(TRUE, ac, table)
        ELSE LET participant_id == IF participant.kind = "absent" THEN None
                                   ELSE Some(participant.identity)
                 i == ActiveOfParticipant(ac, participant_id)
             IN  IF i = 0 THEN Outcome(FALSE, ac, table)
                 ELSE LET duration_ms == (current_time - ac[i].start_time) * 1000
                      IN  OutcomeCalling(
                                  [ac EXCEPT ![i].status = "ended",
                                             ![i].end_time = Some(current_time),
                                             ![i].duration_ms = Some(duration_ms)],
                                  CallsAfterEnded(table, ac[i].call_id, duration_ms),
                                  OnCallEnded(ac[i].call_id, duration_ms))

\* handle_livekit_event(event)
HandleLivekitEvent(event, ac, table, current_time) ==
    IF event.type = None THEN Outcome(FALSE, ac, table)
    ELSE IF event.type = Some("participant_joined")
    THEN ParticipantJoined(event, ac, table, current_time)
    ELSE IF event.type = Some("participant_left")
    THEN ParticipantLeft(event, ac, table, current_time)
    ELSE Outcome(FALSE, ac, table)

\* retry_delay * 2 without the maximum.
NextRetryDelayUncapped(delay) == delay * 2

\* retry_delay = min(retry_delay * 2, max_retry_delay)
NextRetryDelay(delay) == Min(delay * 2, MAX_RETRY_DELAY)

\* A receive loop that a skipped message ends: the listener goes on to its sleep.
ListenerAfterMessageFatal(skipped) == IF skipped THEN "sleep" ELSE "receive"

\* The receive loop catches JSONDecodeError and Exception per message and goes
\* on with the next message.
ListenerAfterMessage(skipped) == "receive"

\* One connection attempt of _websocket_listener: websockets.connect fails
\* ("refused"); or it succeeds and sending the presence message raises
\* ("closed_on_send"); or both succeed ("open"), retry_delay is set to 1 and the
\* receive loop starts.  After a failure the listener sleeps.
Connect(outcome) ==
    /\ listener = "connect"
    /\ ws_connection' = (outcome = "open")
    /\ listener' = IF outcome = "open" THEN "receive" ELSE "sleep"
    /\ retry_delay' = IF outcome = "open" THEN INITIAL_RETRY_DELAY ELSE retry_delay
    /\ waits' = IF outcome = "open" THEN 0 ELSE waits
    /\ last' = [op |-> "connect", connected |-> (outcome # "refused"),
                presence_sent |-> (outcome = "open")]
    /\ UNCHANGED <<now, faults, livekitSip, helpRequests, knowledge, calls,
                   active_calls, sweeper, audioVars>>

\* The receive loop ends: the connection is closed or lost.
ConnectionDrops ==
    /\ listener = "receive"
    /\ ws_connection' = FALSE
    /\ listener' = "sleep"
    /\ last' = [op |-> "drop"]
    /\ UNCHANGED <<now, faults, livekitSip, helpRequests, knowledge, calls,
                   retry_delay, waits, active_calls, sweeper, audioVars>>

\* asyncio.sleep(retry_delay) returns and the delay is doubled.
RetrySleepDone(maxWaits) ==
    /\ listener = "sleep"
    /\ waits < maxWaits
    /\ retry_delay' = NextRetryDelay(retry_delay)
    /\ waits' = waits + 1
    /\ listener' = "connect"
    /\ last' = [op |-> "wait", delay |-> retry_delay]
    /\ UNCHANGED <<now, faults, livekitSip, helpRequests, knowledge, calls,
                   ws_connection, active_calls, sweeper, audioVars>>

\* One message of `async for message in websocket`.
ReceiveMessage(message) ==
    LET outcome == IF ~message.json \/ ~message.object
                   THEN Outcome(TRUE, active_calls, calls)
                   ELSE HandleLivekitEvent(message, active_calls, calls, now)
    IN  /\ listener = "receive"
        /\ listener' = ListenerAfterMessage(outcome.raised)
        /\ active_calls' = outcome.active_calls
        /\ calls' = outcome.calls
        /\ last' = [op |-> "message", message |-> message, skipped |-> outcome.raised,
                    after_skipped |-> (last.op = "message" /\ last.skipped),
                    callbacks |-> outcome.callbacks]
        /\ UNCHANGED <<now, faults, livekitSip, helpRequests, knowledge,
                       retry_delay, ws_connection, waits, sweeper, audioVars>>

\* The number create_test_call() is given by api/calls.
TEST_PHONE_NUMBER == "+15551234567"

\* create_test_call(phone_number): the call is named after the second it is
\* made in and tracked without a participant; a call of the same second is
\* overwritten.
CreateTestCall(phone_number) ==
    LET call_id == "voice_call_" \o ToString(now)
        entry == [call_id |-> call_id, room_name |-> "voice-test-room",
                  participant_id |-> None, phone_number |-> phone_number,
                  start_time |-> now, status |-> "active",
                  end_time |-> None, duration_ms |-> None]
        i == ActiveIndex(active_calls, call_id)
    IN  /\ active_calls' = IF i > 0 THEN [active_calls EXCEPT ![i] = entry]
                           ELSE Append(active_calls, entry)
        /\ calls' = CallsAfterIncoming(calls, call_id, StripPlus(phone_number),
                                       phone_number, now)
        /\ last' = [op |-> "test_call", result |-> Some(call_id),
                    callbacks |-> <<OnCallReceived(call_id, StripPlus(phone_number),
                                                   phone_number)>>]
        /\ UNCHANGED <<now, faults, livekitSip, helpRequests, knowledge,
                       retry_delay, ws_connection, listener, waits, sweeper, audioVars>>

\* active_calls without its i-th call: active_calls.pop(call_id).
WithoutCall(ac, i) == SubSeq(ac, 1, i - 1) \o SubSeq(ac, i + 1, Len(ac))

\* The on_call_ended callbacks of cleanup(): one per tracked call, in the
\* order of the table.
EndCallbacks(ac, current_time) ==
    [i \in 1..Len(ac) |->
        OnCallEnded(ac[i].call_id, (current_time - ac[i].start_time) * 1000)]

\* The call table after handle_call_ended has run for each callback in turn.
RECURSIVE CallsAfterCallbacks(_, _)
CallsAfterCallbacks(table, callbacks) ==
    IF callbacks = <<>> THEN table
    ELSE CallsAfterCallbacks(
            CallsAfterEnded(table, callbacks[1].call_id, callbacks[1].duration_ms),
            Tail(callbacks))

\* end_call(call_id): False for a call that is not tracked; otherwise the
\* callback is awaited with the duration up to now and the call is removed.
EndCall(call_id) ==
    LET i == ActiveIndex(active_calls, call_id)
        callbacks == IF i = 0 THEN <<>>
                     ELSE EndCallbacks(<<active_calls[i]>>, now)
    IN  /\ active_calls' = IF i = 0 THEN active_calls ELSE WithoutCall(active_calls, i)
        /\ calls' = CallsAfterCallbacks(calls, callbacks)
        /\ last' = [op |-> "end_call", call_id |-> call_id, result |-> (i # 0),
                    callbacks |-> callbacks, tracked |-> active_calls]
        /\ UNCHANGED <<now, faults, livekitSip, helpRequests, knowledge,
                       retry_delay, ws_connection, listener, waits, sweeper, audioVars>>

\* A cleanup() that leaves the listener task alone.
ListenerAfterCleanupRunning(state) == state

\* ws_task.cancel() and `await ws_task`: CancelledError is raised at the
\* await the listener is suspended in (connect, receive or sleep); it is no
\* Exception, so no handler of the listener catches it and the task ends.
ListenerAfterCleanup(state) == "cancelled"

\* cleanup(): end_call for every tracked call, then the listener is cancelled
\* and the connection closed.
CleanupDone ==
    /\ active_calls' = <<>>
    /\ calls' = CallsAfterCallbacks(calls, EndCallbacks(active_calls, now))
    /\ listener' = ListenerAfterCleanup(listener)
    /\ ws_connection' = FALSE

Cleanup ==
    /\ CleanupDone
    /\ last' = [op |-> "cleanup", callbacks |-> EndCallbacks(active_calls, now),
                tracked |-> active_calls]
    /\ UNCHANGED <<now, faults, livekitSip, helpRequests, knowledge,
                   retry_delay, waits, sweeper, audioVars>>

\* shutdown_event(): agent_service.stop() clears a flag of the agent service;
\* ai_agent.cleanup() runs cleanup() of the listener when there is one.  The
\* task of check_help_request_timeouts is not referred to.
ShutdownEvent ==
    /\ listener # "cancelled"
    /\ IF livekitSip THEN CleanupDone
       ELSE UNCHANGED <<active_calls, calls, listener, ws_connection>>
    /\ last' = [op |-> "shutdown"]
    /\ UNCHANGED <<now, faults, livekitSip, helpRequests, knowledge,
                   retry_delay, waits, sweeper, audioVars>>

\* uvicorn.run() returns after the shutdown handler: the event loop is closed
\* and the tasks still on it are cancelled.
LoopCloses ==
    /\ listener = "cancelled"
    /\ sweeper = "running"
    /\ sweeper' = "cancelled"
    /\ last' = [op |-> "closed"]
    /\ UNCHANGED <<listenerVars, audioVars, now, faults, livekitSip, helpRequests,
                   knowledge, calls>>

(***************************************************************************)
(* The audio processor.  process_audio_track and stop_processing run       *)
(* without suspending; the loop of a stream suspends in its 100 ms sleep,  *)
(* a silence timer in its sleep and in the transcription request.  Every   *)
(* step of a task below runs from one suspension to the next.              *)
(***************************************************************************)
NewStream(call_id) ==
    [call_id |-> call_id, processing |-> TRUE, silence_timer |-> None,
     buffered |-> FALSE]

\* Task.cancel(): CancelledError is raised in the task where it is suspended;
\* _handle_silence_timeout catches it and returns.  A task that has ended is
\* left as it is.
CancelTimer(tasks, t) ==
    IF tasks[t].pc \in {"sleeping", "transcribing"}
    THEN [tasks EXCEPT ![t].pc = "cancelled"]
    ELSE tasks

\* stop_processing(call_id), on the stream dicts: processing is cleared.
StreamsAfterStop(call_id) ==
    IF call_id \in DOMAIN active_streams
    THEN [streams EXCEPT ![active_streams[call_id]].processing = FALSE]
    ELSE streams

\* stop_processing(call_id), on the tasks: the silence timer the stream refers
\* to is cancelled.
TimersAfterStop(call_id) ==
    IF /\ call_id \in DOMAIN active_streams
       /\ streams[active_streams[call_id]].silence_timer # None
    THEN CancelTimer(timers, streams[active_streams[call_id]].silence_timer[1])
    ELSE timers

\* stop_processing(call_id), on the dict: active_streams.pop(call_id, None).
ActiveStreamsAfterStop(call_id) ==
    [c \in DOMAIN active_streams \ {call_id} |-> active_streams[c]]

\* stop_processing(call_id)
StopProcessing(call_id) ==
    /\ streams' = StreamsAfterStop(call_id)
    /\ timers' = TimersAfterStop(call_id)
    /\ active_streams' = ActiveStreamsAfterStop(call_id)
    /\ last' = [op |-> "stop_processing", call_id |-> call_id,
                stopped |-> (call_id \in DOMAIN active_streams)]
    /\ UNCHANGED <<listenerVars, sweeper, loops, now, faults, livekitSip, helpRequests,
                   knowledge, calls>>

\* process_audio_track(call_id, audio_track, on_transcription): a stream the
\* call already has is stopped; the new dict is registered and the task of its
\* loop is created.
ProcessAudioTrack(call_id, maxStreams) ==
    /\ Len(streams) < maxStreams
    /\ streams' = Append(StreamsAfterStop(call_id), NewStream(call_id))
    /\ timers' = TimersAfterStop(call_id)
    /\ active_streams' = [c \in DOMAIN active_streams \cup {call_id} |->
                            IF c = call_id THEN Len(streams) + 1 ELSE active_streams[c]]
    /\ loops' = Append(loops, [call_id |-> call_id, pc |-> "created",
                               stream_data |-> None])
    /\ last' = [op |-> "process_audio_track", call_id |-> call_id,
                replaced |-> (call_id \in DOMAIN active_streams),
                stream |-> Len(streams) + 1, result |-> TRUE]
    /\ UNCHANGED <<listenerVars, sweeper, now, faults, livekitSip, helpRequests,
                   knowledge, calls>>

\* The finally block of _process_audio_stream: processing is cleared in the
\* dict that active_streams holds for the call at that time.
StreamsAfterLoopExit(table, call_id) ==
    IF call_id \in DOMAIN active_streams
    THEN [table EXCEPT ![active_streams[call_id]].processing = FALSE]
    ELSE table

\* The first step of a _process_audio_stream task: it takes the dict that is
\* registered for its call by now, returns if there is none, and otherwise
\* enters the loop up to its first sleep.
LoopStarts(l) ==
    /\ l \in 1..Len(loops)
    /\ loops[l].pc = "created"
    /\ LET call_id == loops[l].call_id
       IN  IF call_id \notin DOMAIN active_streams
           THEN /\ loops' = [loops EXCEPT ![l].pc = "done"]
                /\ UNCHANGED streams
           ELSE IF streams[active_streams[call_id]].processing
           THEN /\ loops' = [loops EXCEPT ![l].pc = "sleeping",
                                          ![l].stream_data = Some(active_streams[call_id])]
                /\ UNCHANGED streams
           ELSE /\ loops' = [loops EXCEPT ![l].pc = "done",
                                          ![l].stream_data = Some(active_streams[call_id])]
                /\ streams' = StreamsAfterLoopExit(streams, call_id)
    /\ last' = [op |-> "loop_started", loop |-> l]
    /\ UNCHANGED <<listenerVars, sweeper, active_streams, timers, now, faults,
                   livekitSip, helpRequests, knowledge, calls>>

\* One round of the loop of _process_audio_stream, from the end of its sleep
\* to the next sleep or to the end of the task: voice cancels the silence
\* timer and fills the buffer; silence with a filled buffer and no timer
\* starts a timer; the loop ends when processing is cleared in its own dict.
LoopIterates(l, has_voice, maxTimers) ==
    /\ l \in 1..Len(loops)
    /\ loops[l].pc = "sleeping"
    /\ LET call_id == loops[l].call_id
           sd == loops[l].stream_data[1]
           starts == ~has_voice /\ streams[sd].buffered
                        /\ streams[sd].silence_timer = None
           after == IF has_voice
                    THEN [streams EXCEPT ![sd].silence_timer = None,
                                         ![sd].buffered = TRUE]
                    ELSE IF starts
                    THEN [streams EXCEPT ![sd].silence_timer = Some(Len(timers) + 1)]
                    ELSE streams
       IN  /\ starts => Len(timers) < maxTimers
           /\ timers' = IF has_voice /\ streams[sd].silence_timer # None
                        THEN CancelTimer(timers, streams[sd].silence_timer[1])
                        ELSE IF starts
                        THEN Append(timers, [call_id |-> call_id, pc |-> "sleeping",
                                             owner |-> sd, on_transcription |-> None])
                        ELSE timers
           /\ IF after[sd].processing
              THEN /\ streams' = after
                   /\ UNCHANGED loops
              ELSE /\ streams' = StreamsAfterLoopExit(after, call_id)
                   /\ loops' = [loops EXCEPT ![l].pc = "done"]
           /\ last' = [op |-> "loop", loop |-> l, has_voice |-> has_voice,
                       exited |-> ~after[sd].processing]
    /\ UNCHANGED <<listenerVars, sweeper, active_streams, now, faults, livekitSip,
                   helpRequests, knowledge, calls>>

\* _handle_silence_timeout after its sleep: it takes the dict registered for
\* the call by now; with a filled buffer it empties the buffer, clears
\* silence_timer and awaits the transcription in process_utterance, keeping
\* the callback of that dict.
TimerWakes(t) ==
    /\ t \in 1..Len(timers)
    /\ timers[t].pc = "sleeping"
    /\ LET call_id == timers[t].call_id
       IN  IF \/ call_id \notin DOMAIN active_streams
              \/ ~streams[active_streams[call_id]].buffered
           THEN /\ timers' = [timers EXCEPT ![t].pc = "done"]
                /\ UNCHANGED streams
           ELSE /\ timers' = [timers EXCEPT
                                ![t].pc = "transcribing",
                                ![t].on_transcription = Some(active_streams[call_id])]
                /\ streams' = [streams EXCEPT
                                ![active_streams[call_id]].buffered = FALSE,
                                ![active_streams[call_id]].silence_timer = None]
    /\ last' = [op |-> "timer", timer |-> t]
    /\ UNCHANGED <<listenerVars, sweeper, active_streams, loops, now, faults,
                   livekitSip, helpRequests, knowledge, calls>>

\* text.strip() is empty.
IsBlank(text) == \A i \in 1..Len(text) : SubSeq(text, i, i) = " "

\* A transcription callback, with the stream whose callback it is.
OnTranscription(call_id, stream, text) ==
    [name |-> "on_transcription", call_id |-> call_id, stream |-> stream,
     text |-> text]

\* speech_services.transcribe returns in process_utterance: a text that is
\* not blank is handed to the callback.
TimerTranscribed(t, text) ==
    /\ t \in 1..Len(timers)
    /\ timers[t].pc = "transcribing"
    /\ timers' = [timers EXCEPT ![t].pc = "done"]
    /\ last' = [op |-> "transcribed", timer |-> t, call_id |-> timers[t].call_id,
                callbacks |-> IF IsBlank(text) THEN <<>>
                              ELSE <<OnTranscription(timers[t].call_id,
                                        timers[t].on_transcription[1], text)>>]
    /\ UNCHANGED <<listenerVars, sweeper, active_streams, streams, loops, now, faults,
                   livekitSip, helpRequests, knowledge, calls>>

Next ==
    \/ \E d \in ClockSteps : AdvanceClock(d)
    \/ \E c \in CallIds, q \in LedgerQuestions :
            CreateHelpRequestCall(q, c, CustomerOfCall(c), MaxRequests)
    \/ \E r \in 1..MaxRequests, a \in LedgerAnswers :
            ResolveHelpRequest(r, a, MaxKnowledge)
    \/ SweeperTick

\* The escalation ledger over time: escalations, resolutions and sweeps.
Spec == Init /\ [][Next]_vars

NextAnswer ==
    \/ \E c \in CallIds : HandleIncomingCall(c, CustomerOfCall(c))
    \/ \E c \in CallIds, q \in AnswerQuestions : ProcessCallQuestion(c, q, MaxRequests)
    \/ \E r \in 1..MaxRequests, a \in AnswerAnswers :
            ResolveHelpRequest(r, a, MaxKnowledge)

\* The answering engine and what it learns, at one instant of the clock.
SpecAnswer == Init /\ [][NextAnswer]_vars

(***************************************************************************)
(* The sweeper on a ledger about as large as the limit of its query: the   *)
(* store already holds that many pending escalations.                      *)
(***************************************************************************)
\* Escalations SpecSweep lets the ledger hold beyond the query limit.
SweepExtra == 2

SweepSizes == (STATUS_QUERY_LIMIT - 1)..(STATUS_QUERY_LIMIT + 1)

InitSweep ==
    /\ InitTasks
    /\ now = StartTime
    /\ faults = FALSE
    /\ livekitSip = TRUE
    /\ \E n \in SweepSizes :
            helpRequests =
                [i \in 1..n |->
                    NewHelpRequest(Q_PARKING, "call_1", CustomerOfCall("call_1"),
                                   PhoneOf(CustomerOfCall("call_1")), StartTime)]
    /\ knowledge = <<>>
    /\ calls = <<>>
    /\ last = [op |-> "init"]

NextSweep ==
    \/ \E d \in ClockSteps : AdvanceClock(d)
    \/ \E c \in CallIds :
            CreateHelpRequestCall(Q_PARKING, c, CustomerOfCall(c),
                                  STATUS_QUERY_LIMIT + SweepExtra)
    \/ SweeperTick

SpecSweep == InitSweep /\ [][NextSweep]_vars

(***************************************************************************)
(* The answering engine on a knowledge base about as large as the limit of *)
(* its scan: supervisors have already answered that many escalations of    *)
(* one question.                                                           *)
(***************************************************************************)
InitCache ==
    /\ InitTasks
    /\ now = StartTime
    /\ faults = FALSE
    /\ livekitSip = TRUE
    /\ helpRequests =
            [i \in 1..KNOWLEDGE_SCAN_LIMIT |->
                [NewHelpRequest(Q_PARKING, "call_1", CustomerOfCall("call_1"),
                                PhoneOf(CustomerOfCall("call_1")), StartTime)
                    EXCEPT !.status = "resolved", !.answer = Some(A_OTHER)]]
    /\ knowledge =
            [i \in 1..KNOWLEDGE_SCAN_LIMIT |->
                NewKnowledgeEntry(i, Q_PARKING, A_OTHER, i, StartTime)]
    /\ calls =
            [c \in CallIds |->
                WithTranscriptEntry(
                    NewCallRecord(CustomerOfCall(c), PhoneOf(CustomerOfCall(c)), StartTime),
                    "ai", Greeting, StartTime)]
    /\ last = [op |-> "init"]

\* Two callers in greeted calls ask a new question; the supervisor answers
\* that escalation; the calls end.
NextCache ==
    \/ \E c \in CallIds, ms \in DurationsMs : HandleCallEnded(c, ms)
    \/ \E c \in CallIds :
            ProcessCallQuestion(c, Q_DISCOUNT, KNOWLEDGE_SCAN_LIMIT + 2)
    \/ ResolveHelpRequest(KNOWLEDGE_SCAN_LIMIT + 1, A_DISCOUNT, KNOWLEDGE_SCAN_LIMIT + 1)

SpecCache == InitCache /\ [][NextCache]_vars

(***************************************************************************)
(* The call ledger: calls start, ask a question, end, and start again.     *)
(***************************************************************************)
NextCall ==
    \/ \E c \in CallIds : HandleIncomingCall(c, CustomerOfCall(c))
    \/ \E c \in CallIds : ProcessCallQuestion(c, Q_DISCOUNT, MaxRequests)
    \/ \E c \in CallIds, ms \in CallDurationsMs : HandleCallEnded(c, ms)

SpecCall == Init /\ [][NextCall]_vars

(***************************************************************************)
(* Callers ask a question the supervisor answers with any text the resolve *)
(* request accepts, the empty text included.                               *)
(***************************************************************************)
NextAnyAnswer ==
    \/ \E c \in CallIds : HandleIncomingCall(c, CustomerOfCall(c))
    \/ \E c \in CallIds : ProcessCallQuestion(c, Q_DISCOUNT, MaxRequests)
    \/ \E r \in 1..MaxRequests, a \in LedgerAnswers :
            ResolveHelpRequest(r, a, MaxKnowledge)

SpecAnyAnswer == Init /\ [][NextAnyAnswer]_vars

(***************************************************************************)
(* Delivery of the supervisor's answer: the call of the escalation is in   *)
(* progress or has ended when the supervisor answers, and the agent runs   *)
(* with or without the LiveKit SIP integration (settings.LIVEKIT_ENABLED   *)
(* and settings.SIP_ENABLED, both False unless the environment sets them). *)
(***************************************************************************)
InitNotify ==
    /\ InitTasks
    /\ now = StartTime
    /\ faults = FALSE
    /\ livekitSip \in BOOLEAN
    /\ helpRequests = <<>>
    /\ knowledge = <<>>
    /\ calls = <<>>
    /\ last = [op |-> "init"]

NextNotify ==
    \/ HandleIncomingCall("call_1", CustomerOfCall("call_1"))
    \/ ProcessCallQuestion("call_1", Q_DISCOUNT, MaxRequests)
    \/ \E ms \in DurationsMs : HandleCallEnded("call_1", ms)
    \/ \E r \in 1..MaxRequests, a \in LedgerAnswers :
            ResolveHelpRequest(r, a, MaxKnowledge)

SpecNotify == InitNotify /\ [][NextNotify]_vars

(***************************************************************************)
(* The escalation ledger while the store and the notifier fail and         *)
(* recover.                                                                *)
(***************************************************************************)
NextFaulty ==
    \/ \E q \in LedgerQuestions :
            CreateHelpRequestCall(q, "call_1", CustomerOfCall("call_1"), MaxRequests)
    \/ \E r \in 1..MaxRequests : ResolveHelpRequest(r, A_DISCOUNT, MaxKnowledge)
    \/ StoreFails
    \/ StoreRecovers

SpecFaulty == Init /\ [][NextFaulty]_vars

(***************************************************************************)
(* Everything that runs against the stores of one call: the call starts,   *)
(* the caller asks, escalations are created and swept, the supervisor      *)
(* answers the first escalation, once or again, the call ends, time        *)
(* passes.                                                                 *)
(***************************************************************************)
NextStores ==
    \/ \E d \in ClockSteps : AdvanceClock(d)
    \/ HandleIncomingCall("call_1", CustomerOfCall("call_1"))
    \/ ProcessCallQuestion("call_1", Q_DISCOUNT, MaxRequests)
    \/ \E ms \in DurationsMs : HandleCallEnded("call_1", ms)
    \/ CreateHelpRequestCall(Q_DISCOUNT, "call_1", CustomerOfCall("call_1"), MaxRequests)
    \/ \E a \in AnswerAnswers : ResolveHelpRequest(1, a, MaxKnowledge)
    \/ SweeperTick

SpecStores == Init /\ [][NextStores]_vars

(***************************************************************************)
(* Calls in progress while the store fails and recovers: the callers ask,  *)
(* the calls end.                                                          *)
(***************************************************************************)
InitGreeted ==
    /\ InitTasks
    /\ now = StartTime
    /\ faults = FALSE
    /\ livekitSip = TRUE
    /\ helpRequests = <<>>
    /\ knowledge = <<>>
    /\ calls = [c \in CallIds |->
                    GreetedCall(CustomerOfCall(c), PhoneOf(CustomerOfCall(c)), StartTime)]
    /\ last = [op |-> "init"]

NextCallFaulty ==
    \/ \E q \in {Q_HOURS, Q_DISCOUNT} : ProcessCallQuestion("call_1", q, MaxRequests)
    \/ \E ms \in DurationsMs : HandleCallEnded("call_1", ms)
    \/ \E c \in CallIds, ms \in DurationsMs : CompleteCall(c, SecondsOf(ms))
    \/ StoreFails
    \/ StoreRecovers

SpecCallFaulty == InitGreeted /\ [][NextCallFaulty]_vars

(***************************************************************************)
(* The event listener: connection attempts, waits, and the messages of an  *)
(* open connection.                                                        *)
(***************************************************************************)
\* Waits the listener makes without a reset of its delay.
MaxWaits == 8

ConnectOutcomes == {"refused", "closed_on_send", "open"}

SipJoined ==
    Event(Some("participant_joined"), "room_1",
          Participant("sip_1", Metadata(Some("sip"), Some("call_1"), Some("+15551234567"))),
          None)

BridgeMessages ==
    {NotJson, JsonArray, SipJoined,
     Event(Some("participant_joined"), "room_1", NullParticipant, None),
     Event(Some("participant_joined"), "room_1", Participant("sip_1", InvalidMetadata), None),
     Event(Some("participant_joined"), "room_1",
           Participant("web_1", Metadata(Some("web"), None, None)), None),
     Event(Some("participant_left"), "room_1", Participant("sip_1", EmptyMetadata), None),
     Event(Some("participant_left"), "room_1", NullParticipant, None),
     Event(Some("track_published"), "room_1", NoParticipant, Some("audio")),
     Event(None, "room_1", NoParticipant, None)}

NextBridge ==
    \/ \E d \in ClockSteps : AdvanceClock(d)
    \/ \E outcome \in ConnectOutcomes : Connect(outcome)
    \/ ConnectionDrops
    \/ RetrySleepDone(MaxWaits)
    \/ \E message \in BridgeMessages : ReceiveMessage(message)

SpecBridge == Init /\ [][NextBridge]_vars

(***************************************************************************)
(* Calls over an open connection: participants join and leave, with and    *)
(* without the metadata of a SIP call, and one identity joins two calls.   *)
(***************************************************************************)
\* The same SIP participant identity in another call.
SipJoinedAgain ==
    Event(Some("participant_joined"), "room_2",
          Participant("sip_1", Metadata(Some("sip"), Some("call_2"), Some("+15559876543"))),
          None)

\* A SIP participant whose metadata has neither callId nor from.
SipJoinedBare ==
    Event(Some("participant_joined"), "room_3",
          Participant("sip_2", Metadata(Some("sip"), None, None)), None)

JoinedMessages ==
    {SipJoined, SipJoinedAgain, SipJoinedBare,
     Event(Some("participant_joined"), "room_1", NoParticipant, None),
     Event(Some("participant_joined"), "room_1", NullParticipant, None),
     Event(Some("participant_joined"), "room_1", Participant("web_1", EmptyMetadata), None),
     Event(Some("participant_joined"), "room_1", Participant("sip_1", InvalidMetadata), None),
     Event(Some("participant_joined"), "room_1", Participant("sip_1", NonObjectMetadata), None)}

LeftMessages ==
    {Event(Some("participant_left"), "room_1", Participant("sip_1", EmptyMetadata), None),
     Event(Some("participant_left"), "room_2", Participant("sip_1", EmptyMetadata), None),
     Event(Some("participant_left"), "room_3", Participant("sip_2", EmptyMetadata), None)}

NextEvents ==
    \/ \E d \in ClockSteps : AdvanceClock(d)
    \/ Connect("open")
    \/ \E message \in JoinedMessages \cup LeftMessages : ReceiveMessage(message)

SpecEvents == Init /\ [][NextEvents]_vars

(***************************************************************************)
(* Events the listener has nothing to do for, among calls that joined and  *)
(* test calls made through the API.                                        *)
(***************************************************************************)
\* A call joins, its identity joins a second call, and the identity leaves.
ShutdownMessages ==
    {SipJoined, SipJoinedAgain,
     Event(Some("participant_left"), "room_1", Participant("sip_1", EmptyMetadata), None)}

IgnoredMessages ==
    {Event(None, "room_1", NoParticipant, None),
     Event(Some("room_started"), "room_1", NoParticipant, None),
     Event(Some("track_published"), "room_1", Participant("sip_1", EmptyMetadata),
           Some("video")),
     Event(Some("track_published"), "room_1", Participant("sip_1", EmptyMetadata), None),
     Event(Some("participant_joined"), "room_1",
           Participant("web_1", Metadata(Some("web"), None, None)), None),
     Event(Some("participant_joined"), "room_1", NoParticipant, None),
     Event(Some("participant_left"), "room_1", Participant("web_1", EmptyMetadata), None),
     Event(Some("participant_left"), "room_1", NoParticipant, None)}

NextIgnored ==
    \/ \E d \in ClockSteps : AdvanceClock(d)
    \/ Connect("open")
    \/ CreateTestCall(TEST_PHONE_NUMBER)
    \/ \E message \in IgnoredMessages \cup ShutdownMessages : ReceiveMessage(message)

SpecIgnored == Init /\ [][NextIgnored]_vars

(***************************************************************************)
(* Shutdown of the listener: calls come and go while the connection opens, *)
(* drops and is retried; calls are ended by hand; cleanup() ends it all.   *)
(***************************************************************************)
NextShutdown ==
    \/ \E d \in ClockSteps : AdvanceClock(d)
    \/ \E outcome \in {"refused", "open"} : Connect(outcome)
    \/ ConnectionDrops
    \/ RetrySleepDone(MaxWaits)
    \/ \E message \in ShutdownMessages : ReceiveMessage(message)
    \/ \E c \in CallIds : EndCall(c)
    \/ Cleanup

SpecShutdown == Init /\ [][NextShutdown]_vars

(***************************************************************************)
(* The application from startup to shutdown: escalations are created and   *)
(* time passes while it serves, the sweeper ticks, the shutdown handler    *)
(* runs and the event loop is closed.                                      *)
(***************************************************************************)
NextApplication ==
    \/ \E d \in ClockSteps : AdvanceClock(d)
    \/ /\ listener # "cancelled"
       /\ \E c \in CallIds, q \in LedgerQuestions :
                CreateHelpRequestCall(q, c, CustomerOfCall(c), MaxRequests)
    \/ SweeperTick
    \/ ShutdownEvent
    \/ LoopCloses

SpecApplication == Init /\ [][NextApplication]_vars

(***************************************************************************)
(* The audio of one call: tracks are published and replaced, processing is *)
(* stopped, and the tasks of the streams run in any order.                 *)
(***************************************************************************)
\* Calls of process_audio_track.
MaxStreams == 2

\* Silence timers started.
MaxTimers == 2

\* What the transcription returns: nothing, blanks, or words.
Transcriptions == {EmptyText, " ", Q_HOURS}

NextAudio ==
    \/ ProcessAudioTrack("call_1", MaxStreams)
    \/ StopProcessing("call_1")
    \/ \E l \in 1..MaxStreams : LoopStarts(l)
    \/ \E l \in 1..MaxStreams, has_voice \in BOOLEAN : LoopIterates(l, has_voice, MaxTimers)
    \/ \E t \in 1..MaxTimers : TimerWakes(t)
    \/ \E t \in 1..MaxTimers, text \in Transcriptions : TimerTranscribed(t, text)

SpecAudio == Init /\ [][NextAudio]_vars

(***************************************************************************)
(* The sweeper while the store fails and recovers.  The loop ticks every   *)
(* 60 seconds for as long as the task runs, hence the weak fairness of the *)
(* tick.                                                                   *)
(***************************************************************************)
NextSweeper ==
    \/ \E d \in ClockSteps : AdvanceClock(d)
    \/ \E q \in LedgerQuestions :
            CreateHelpRequestCall(q, "call_1", CustomerOfCall("call_1"), MaxRequests)
    \/ SweeperTick
    \/ StoreFails
    \/ StoreRecovers

SpecSweeper == Init /\ [][NextSweeper]_vars /\ WF_vars(SweeperTick)

(***************************************************************************)
(* Properties of the escalation ledger.                                    *)
(***************************************************************************)
RequestIds == 1..Len(helpRequests)

Terminal == {"resolved", "unresolved"}

Age(request) == now - request.timestamp

\* C1: once a stored escalation is resolved or unresolved, no later operation
\* changes its status; the only status transitions are pending -> resolved and
\* pending -> unresolved.
C1_TerminalStatusNeverChanges ==
    [][\A r \in RequestIds :
            /\ helpRequests[r].status \in Terminal
                    => helpRequests'[r].status = helpRequests[r].status
            /\ helpRequests'[r].status # helpRequests[r].status
                    => /\ helpRequests[r].status = "pending"
                       /\ helpRequests'[r].status \in Terminal]_vars

\* C2: in every reachable state, a stored escalation has an answer if and
\* only if its status is resolved.
C2_AnswerIffResolved ==
    \A r \in RequestIds :
        (helpRequests[r].answer # None) <=> (helpRequests[r].status = "resolved")

\* C3: every resolved escalation has resolved_at set, at or after its
\* creation, in the stored record and in the object resolve returns.
C3_ResolvedAtSet ==
    /\ \A r \in RequestIds :
            helpRequests[r].status = "resolved"
                => /\ helpRequests[r].resolved_at # None
                   /\ helpRequests[r].resolved_at[1] >= helpRequests[r].timestamp
    /\ (last.op = "resolve" /\ last.result # None)
            => /\ last.result[1].resolved_at # None
               /\ last.result[1].resolved_at[1] >= last.result[1].timestamp

\* C4: after a sweeper tick without store errors, no stored escalation is
\* pending and older than the timeout, however many escalations are pending.
C4_SweepExpiresEveryTimedOut ==
    (last.op = "sweep" /\ ~faults)
        => \A r \in RequestIds :
                ~(/\ helpRequests[r].status = "pending"
                  /\ Age(helpRequests[r]) > HELP_REQUEST_TIMEOUT_SECONDS)

\* C5: is_timed_out is true exactly when the escalation is pending and its age
\* is strictly greater than the timeout: false at an age of exactly the
\* timeout, and false for every resolved or unresolved escalation.
C5_IsTimedOutExact ==
    \A r \in RequestIds :
        LET request == helpRequests[r]
        IN  /\ IsTimedOut(request, now)
                <=> (/\ request.status = "pending"
                     /\ Age(request) > HELP_REQUEST_TIMEOUT_SECONDS)
            /\ Age(request) = HELP_REQUEST_TIMEOUT_SECONDS => ~IsTimedOut(request, now)
            /\ request.status \in Terminal => ~IsTimedOut(request, now)

\* C5 witness: a sweeper tick has run on an escalation that is pending at an
\* age of exactly the timeout, and has left it pending.
C5_Witness ==
    /\ last.op = "sweep"
    /\ \E r \in RequestIds :
            /\ helpRequests[r].status = "pending"
            /\ Age(helpRequests[r]) = HELP_REQUEST_TIMEOUT_SECONDS
            /\ ~IsTimedOut(helpRequests[r], now)

\* The knowledge entries whose source is escalation r.
EntriesOf(r) ==
    {k \in 1..Len(knowledge) : knowledge[k].source_request_id = Some(r)}

\* C6: after any sequence of resolve calls, the knowledge base holds exactly
\* one entry whose source is a resolved escalation, with that escalation's
\* question, the supervisor's answer and confidence 1.0.
C6_OneEntryPerEscalation ==
    /\ \A r \in RequestIds :
            /\ helpRequests[r].status = "resolved" => Cardinality(EntriesOf(r)) = 1
            /\ \A k \in EntriesOf(r) :
                    /\ knowledge[k].question = helpRequests[r].question
                    /\ knowledge[k].confidence = 1
    /\ (last.op = "resolve" /\ last.result # None)
            => \A k \in EntriesOf(last.request_id) : knowledge[k].answer = last.answer

\* C7: after resolve(e, A), find_similar_question(e.question) returns an
\* entry whose answer is A, whatever the knowledge base held before.
C7_ResolveThenFindReturnsAnswer ==
    (last.op = "resolve" /\ last.result # None)
        => LET match == FindSimilarQuestion(knowledge, last.result[1].question, TRUE)
           IN  /\ match # None
               /\ match[1].answer = last.answer

(***************************************************************************)
(* Properties of the answering engine.                                     *)
(***************************************************************************)
\* The entries within the scan whose question contains the lowered question
\* or is contained in it.
CacheMatches(question) ==
    {i \in 1..Min(Len(knowledge), KNOWLEDGE_SCAN_LIMIT) :
        \/ Contains(Lower(question), Lower(knowledge[i].question))
        \/ Contains(Lower(knowledge[i].question), Lower(question))}

\* C8: answer(question) decides in a fixed order: a knowledge-base match
\* gives that entry's answer and needs_help = false, even when a rule matches
\* too; otherwise a rule match gives the templated answer and needs_help =
\* false; otherwise the escalation phrase and needs_help = true.  needs_help
\* is true exactly when neither matched.
C8_AnswerOrder ==
    (last.op = "process" /\ last.result # None)
        => LET result == last.result[1]
               matches == CacheMatches(last.question)
               rule == CheckSimpleQuestions(last.question)
           IN  /\ matches # {}
                    => /\ \E i \in matches :
                            /\ \A j \in matches : i <= j
                            /\ result.answer = knowledge[i].answer
                       /\ ~result.needs_help
               /\ (matches = {} /\ rule # None)
                    => result = [answer |-> rule[1], needs_help |-> FALSE]
               /\ (matches = {} /\ rule = None)
                    => result = [answer |-> ESCALATION_PHRASE, needs_help |-> TRUE]
               /\ result.needs_help <=> (matches = {} /\ rule = None)
               /\ (matches = {} /\ last.question = Q_HOURS)
                    => result = [answer |-> "Our hours are " \o SALON_HOURS,
                                 needs_help |-> FALSE]

\* C8 witness: a question that a rule answers was answered from a
\* knowledge-base entry instead.
C8_Witness ==
    /\ last.op = "process"
    /\ last.result # None
    /\ CacheMatches(last.question) # {}
    /\ CheckSimpleQuestions(last.question) # None
    /\ last.result[1].answer # CheckSimpleQuestions(last.question)[1]
    /\ ~last.result[1].needs_help

\* C9: process_question on a known call creates an escalation if and only if
\* the answer has needs_help = true: then exactly one new pending escalation
\* with the question and the call's id, customer id and contact; otherwise
\* the ledger is left as it was.
C9_EscalationIffNeedsHelp ==
    [][(last'.op = "process" /\ last'.result # None)
            => IF last'.result[1].needs_help
               THEN helpRequests' =
                        Append(helpRequests,
                            [question |-> last'.question,
                             call_id |-> last'.call_id,
                             customer_id |-> calls[last'.call_id].customer_id,
                             customer_phone |-> calls[last'.call_id].customer_phone,
                             status |-> "pending", timestamp |-> now,
                             answer |-> None, resolved_at |-> None])
               ELSE helpRequests' = helpRequests]_vars

\* C9 witness: process_question has escalated a question, and the newest
\* escalation is pending and carries that question and call.
C9_Witness ==
    /\ last.op = "process"
    /\ last.result # None
    /\ last.result[1].needs_help
    /\ Len(helpRequests) > 0
    /\ helpRequests[Len(helpRequests)].question = last.question
    /\ helpRequests[Len(helpRequests)].call_id = last.call_id
    /\ helpRequests[Len(helpRequests)].status = "pending"

\* C10: once an escalation with question q has been resolved, every later
\* process_question with q returns needs_help = false, for every size of the
\* knowledge base.
C10_ResolvedQuestionIsAnswered ==
    (/\ last.op = "process"
     /\ last.result # None
     /\ \E r \in RequestIds :
            /\ helpRequests[r].status = "resolved"
            /\ helpRequests[r].question = last.question)
        => ~last.result[1].needs_help

(***************************************************************************)
(* Properties of the call ledger.                                          *)
(***************************************************************************)
\* C11: for every question and every reachable knowledge base, the answer
\* text is not empty, and process_question on a known call returns an answer.
C11_NeverSilent ==
    (last.op = "process" /\ last.call_id \in DOMAIN calls)
        => /\ last.result # None
           /\ last.result[1].answer # EmptyText

IsPrefix(s, t) == Len(s) <= Len(t) /\ SubSeq(t, 1, Len(s)) = s

\* C12: the transcript stored for a call is a prefix of every later stored
\* transcript of that call: no stored entry is removed, replaced or reordered.
C12_TranscriptAppendOnly ==
    [][\A c \in DOMAIN calls :
            /\ c \in DOMAIN calls'
            /\ IsPrefix(calls[c].transcript, calls'[c].transcript)]_vars

\* C13: in every reachable state, a stored call has a duration if and only if
\* its status is completed.
C13_DurationIffCompleted ==
    \A c \in DOMAIN calls :
        (calls[c].duration # None) <=> (calls[c].status = "completed")

\* C13 witness: a call that lasted under a second has ended: it is completed
\* with a duration of 0 seconds, while another call is in progress.
C13_Witness ==
    /\ last.op = "ended"
    /\ last.call_id \in DOMAIN calls
    /\ calls[last.call_id].status = "completed"
    /\ calls[last.call_id].duration = Some(0)
    /\ \E c \in DOMAIN calls :
            calls[c].status = "in_progress" /\ calls[c].duration = None

\* C14: once a stored call is completed, no later operation sets its status
\* back to in_progress.
C14_CompletedStaysCompleted ==
    [][\A c \in DOMAIN calls :
            calls[c].status = "completed"
                => (c \in DOMAIN calls' /\ calls'[c].status = "completed")]_vars

\* C15: completing a call that is already completed leaves it completed with
\* the duration of the second completion and changes nothing else.
C15_CompleteTwiceLastWins ==
    [][(/\ last'.op = "ended"
        /\ last'.call_id \in DOMAIN calls
        /\ calls[last'.call_id].status = "completed")
            => /\ calls' = [calls EXCEPT
                    ![last'.call_id].duration = Some(last'.duration_ms \div 1000)]
               /\ calls'[last'.call_id].status = "completed"
               /\ helpRequests' = helpRequests
               /\ knowledge' = knowledge]_vars

\* C15 witness: a completed call has been completed again with another
\* duration, and the record holds the second one.
C15_Witness ==
    /\ last.op = "ended"
    /\ last.before # None
    /\ last.before[1].status = "completed"
    /\ last.call_id \in DOMAIN calls
    /\ calls[last.call_id].duration = Some(last.duration_ms \div 1000)
    /\ calls[last.call_id].duration # last.before[1].duration
    /\ Len(calls[last.call_id].transcript) > 1

\* C21: process_question with a call id that has no stored call returns none
\* and leaves all state unchanged: no transcript entry is appended to any
\* call, no escalation is created and no response or notification is sent.
C21_ProcessUnknownCall ==
    [][(last'.op = "process" /\ last'.call_id \notin DOMAIN calls)
            => /\ last'.result = None
               /\ last'.messages = <<>>
               /\ calls' = calls
               /\ helpRequests' = helpRequests
               /\ knowledge' = knowledge]_vars

\* C21 witness: process_question has returned none for a call id the ledger
\* does not hold, while the ledger holds another call and an escalation.
C21_Witness ==
    /\ last.op = "process"
    /\ last.call_id \notin DOMAIN calls
    /\ last.result = None
    /\ last.messages = <<>>
    /\ DOMAIN calls # {}
    /\ Len(helpRequests) > 0

\* C22: on a successful resolve the answer is delivered through exactly one
\* channel: into the originating call if that call's stored status is
\* in_progress, otherwise as a message to the customer's phone; never both
\* and never neither.
C22_ExactlyOneChannel ==
    (last.op = "resolve" /\ last.result # None)
        => LET request == last.result[1]
               call == CallGetById(calls, request.call_id)
               in_progress == call # None /\ call[1].status = "in_progress"
           IN  /\ Len(last.messages) = 1
               /\ in_progress
                    => /\ last.messages[1].channel = "response"
                       /\ last.messages[1].to = request.call_id
               /\ ~in_progress
                    => /\ last.messages[1].channel = "sms"
                       /\ last.messages[1].to = request.customer_phone

\* C23: create returns an escalation with status pending and created_at =
\* now, and a failure of the supervisor notification neither makes create fail
\* nor changes the stored escalation: what is stored is what a create whose
\* notification succeeds stores.
C23_CreateSurvivesNotifier ==
    [][(last' # last /\ last'.op = "create")
            => /\ last'.result # None
               /\ last'.result[1].status = "pending"
               /\ last'.result[1].timestamp = now
               /\ last'.saved => helpRequests' = Append(helpRequests, last'.result[1])
               /\ ~last'.saved => helpRequests' = helpRequests]_vars

\* C23 witness: create has returned a pending escalation and stored it although
\* the supervisor notification failed.
C23_Witness ==
    /\ last.op = "create"
    /\ ~last.notified
    /\ last.saved
    /\ last.result # None
    /\ last.request_id \in RequestIds
    /\ helpRequests[last.request_id] = last.result[1]
    /\ helpRequests[last.request_id].status = "pending"

\* C37: the transcript of a completed call is frozen: once the stored status
\* of a call is completed, no process_question, duplicate start or further
\* call-ended event adds, removes or changes an entry of its stored
\* transcript.
C37_CompletedTranscriptFrozen ==
    [][\A c \in DOMAIN calls :
          calls[c].status = "completed"
            => /\ c \in DOMAIN calls'
               /\ calls'[c].transcript = calls[c].transcript]_vars

(***************************************************************************)
(* Properties of the knowledge base.                                       *)
(***************************************************************************)
\* C24: the knowledge base is append-only: in every step every stored entry
\* stays stored, with the question and the answer it was stored with, under
\* every operation of the answering engine, the escalation ledger and the
\* sweeper.
C24_KnowledgeAppendOnly ==
    [][\A k \in 1..Len(knowledge) :
            \E k2 \in 1..Len(knowledge') :
                /\ knowledge'[k2].question_id = knowledge[k].question_id
                /\ knowledge'[k2].question = knowledge[k].question
                /\ knowledge'[k2].answer = knowledge[k].answer]_vars

\* C24 witness: an escalation has been resolved a second time with another
\* answer, and the entry of the first answer is still stored next to the new
\* one.
C24_Witness ==
    /\ last.op = "resolve"
    /\ last.result # None
    /\ Len(knowledge) = 2
    /\ knowledge[1].question = knowledge[2].question
    /\ knowledge[1].source_request_id = knowledge[2].source_request_id
    /\ knowledge[1].answer # knowledge[2].answer

\* The stored entries whose question contains the lowered question or is
\* contained in it.
StoredMatches(question) ==
    {i \in 1..Len(knowledge) :
        \/ Contains(Lower(question), Lower(knowledge[i].question))
        \/ Contains(Lower(knowledge[i].question), Lower(question))}

\* C25: find_similar_question(question) returns none if and only if no stored
\* entry's question contains the question or is contained in it, without
\* regard to case; when several entries match, the earliest-created one is
\* returned.
C25_FindMatchEarliest ==
    (last.op = "process" /\ last.result # None)
        => LET found == FindSimilarQuestion(knowledge, last.question, TRUE)
               matches == StoredMatches(last.question)
           IN  /\ (found = None) <=> (matches = {})
               /\ found # None
                    => \A j \in matches : found[1].created_at <= knowledge[j].created_at

\* C29: every process_question on a known call extends the stored transcript
\* of that call by the customer's utterance and then the assistant's answer,
\* in that order, and the answer appended is the one returned.
C29_QuestionThenAnswer ==
    [][(last'.op = "process" /\ last'.result # None)
            => /\ last'.call_id \in DOMAIN calls
               /\ calls'[last'.call_id].transcript =
                    calls[last'.call_id].transcript \o
                        <<TranscriptEntry("customer", last'.question, now),
                          TranscriptEntry("ai", last'.result[1].answer, now)>>]_vars

\* C29 witness: a question has been answered from the knowledge base, and
\* the transcript ends with the question and that answer after the greeting.
C29_Witness ==
    /\ last.op = "process"
    /\ last.result # None
    /\ ~last.result[1].needs_help
    /\ last.result[1].answer \in AnswerAnswers
    /\ LET transcript == calls[last.call_id].transcript
       IN  /\ Len(transcript) = 3
           /\ transcript[1].text = Greeting
           /\ transcript[2].speaker = "customer"
           /\ transcript[2].text = last.question
           /\ transcript[3].speaker = "ai"
           /\ transcript[3].text = last.result[1].answer

(***************************************************************************)
(* Properties of the event listener.                                       *)
(***************************************************************************)
\* C16: the wait after the k-th consecutive failure is min(2^(k-1), 60)
\* seconds: 1, 2, 4, 8, 16, 32, 60, 60, ...; the delay is always within 1..60
\* and never decreases except by a reset to 1.
C16_BackoffSequence ==
    /\ [](/\ retry_delay \in INITIAL_RETRY_DELAY..MAX_RETRY_DELAY
          /\ retry_delay = Min(2 ^ waits, 60)
          /\ (last.op = "wait" /\ waits = 1) => last.delay = 1
          /\ (last.op = "wait" /\ waits = 6) => last.delay = 32
          /\ (last.op = "wait" /\ waits = 7) => last.delay = 60
          /\ (last.op = "wait" /\ waits = 8) => last.delay = 60)
    /\ [][retry_delay' >= retry_delay \/ retry_delay' = 1]_vars

\* C16 witness: the listener sleeps for the eighth time in a row, for 60
\* seconds, after a wait of 60 seconds.
C16_Witness ==
    /\ listener = "sleep"
    /\ waits = 7
    /\ retry_delay = 60
    /\ last.op = "connect"
    /\ ~last.connected

\* C17: whenever a connection attempt succeeds, the delay is reset to 1 at
\* once, so the first wait after that connection is lost is 1 second however
\* many failures came before.
C17_ResetOnConnect ==
    [][(last'.op = "connect" /\ last'.connected) => retry_delay' = 1]_vars

\* A message the receive loop skips: no JSON, no JSON object, or an event with
\* a null participant, which the handler fails on.
IsBadMessage(message) ==
    \/ ~message.json
    \/ ~message.object
    \/ (/\ message.type \in {Some("participant_joined"), Some("participant_left")}
        /\ message.participant.kind = "null")

\* C18: a message that is no valid JSON, or whose handling raises, is skipped:
\* the connection stays open, the receive loop goes on and the stores are left
\* alone; a later call event on the same connection is still handled.
C18_ReceiveLoopSurvives ==
    [][last'.op = "message"
            => /\ listener' = "receive"
               /\ ws_connection' = TRUE
               /\ retry_delay' = retry_delay
               /\ last'.skipped <=> IsBadMessage(last'.message)
               /\ IsBadMessage(last'.message)
                    => (calls' = calls /\ active_calls' = active_calls)
               /\ last'.message = SipJoined
                    => /\ "call_1" \in DOMAIN calls'
                       /\ calls'["call_1"].status = "in_progress"
                       /\ calls'["call_1"].customer_phone = "+15551234567"
                       /\ calls'["call_1"].customer_id = "15551234567"
                       /\ ActiveIndex(active_calls', "call_1") > 0]_vars

\* C18 witness: right after a skipped message, a call event on the same
\* connection has been handled and its call record exists.
C18_Witness ==
    /\ last.op = "message"
    /\ last.after_skipped
    /\ last.message = SipJoined
    /\ ~last.skipped
    /\ listener = "receive"
    /\ ws_connection
    /\ "call_1" \in DOMAIN calls

\* The call id and the number _handle_participant_joined is to use for a SIP
\* participant: those of the metadata, else a generated id and "unknown".
ExpectedCallId(participant) ==
    IF participant.metadata.callId # None THEN participant.metadata.callId[1]
    ELSE "call_" \o participant.identity

ExpectedNumber(participant) ==
    IF participant.metadata.from # None THEN participant.metadata.from[1]
    ELSE "unknown"

IsSipParticipant(participant) ==
    /\ participant.kind = "object"
    /\ participant.metadata.kind = "object"
    /\ participant.metadata.type = Some("sip")

\* C26: handling of a participant-joined event never raises, whatever the
\* participant and the metadata of the event are; and for a SIP participant
\* the call is started under the call id and number of the metadata, or under
\* a generated id and the number "unknown" where the metadata lacks them.
C26_JoinedFailsOpen ==
    [][(last'.op = "message" /\ last'.message \in JoinedMessages)
            => /\ ~last'.skipped
               /\ IsSipParticipant(last'.message.participant)
                    => LET call_id == ExpectedCallId(last'.message.participant)
                       IN  /\ call_id \in DOMAIN calls'
                           /\ calls'[call_id].status = "in_progress"
                           /\ calls'[call_id].customer_phone =
                                    ExpectedNumber(last'.message.participant)
                           /\ ActiveIndex(active_calls', call_id) > 0]_vars

\* C27: when the participant of a tracked call leaves, that call (the one the
\* participant joined in the room of the event and has not left, not another
\* tracked call) is ended: its tracking entry becomes ended and the call
\* ledger marks it completed with a duration of now minus its start time;
\* this for every sequence of joins and leaves, identities that recur across
\* calls included.
C27_LeftEndsThatCall ==
    [][(last'.op = "message" /\ last'.message \in LeftMessages)
            => \A i \in 1..Len(active_calls) :
                    (/\ active_calls[i].status = "active"
                     /\ active_calls[i].room_name = last'.message.room
                     /\ active_calls[i].participant_id =
                            Some(last'.message.participant.identity))
                        => /\ active_calls'[i].status = "ended"
                           /\ active_calls[i].call_id \in DOMAIN calls'
                           /\ calls'[active_calls[i].call_id].status = "completed"
                           /\ calls'[active_calls[i].call_id].duration =
                                    Some(now - active_calls[i].start_time)]_vars

(***************************************************************************)
(* Properties of the ledger on a failing store.                            *)
(***************************************************************************)
\* C30: a failed store write is returned as a failure: whenever create
\* returns an escalation, the store holds it as pending, and whenever resolve
\* returns an escalation, the store holds it as resolved with that answer.
C30_StoreFailureIsReturned ==
    /\ (last.op = "create" /\ last.result # None)
            => /\ last.request_id \in RequestIds
               /\ helpRequests[last.request_id].status = "pending"
               /\ helpRequests[last.request_id].question = last.result[1].question
    /\ (last.op = "resolve" /\ last.result # None)
            => /\ last.request_id \in RequestIds
               /\ helpRequests[last.request_id].status = "resolved"
               /\ helpRequests[last.request_id].answer = last.result[1].answer

\* C31: failures of the call store do not end the call session: a failed
\* append of a transcript entry or a failed completion returns failure and
\* leaves the stored record as it was, and process_question on a call it
\* could load returns the answer it computed whether or not the transcript
\* entries were stored.
C31_CallStoreFailures ==
    [][faults' = faults
            => /\ (last'.op = "process" /\ last'.result = None)
                    => calls' = calls
               /\ (last'.op = "process" /\ last'.result # None)
                    => /\ last'.result[1].answer # EmptyText
                       /\ last'.result[1].needs_help
                            <=> (last'.result[1].answer = ESCALATION_PHRASE)
                       /\ last'.messages[1] =
                            Response(last'.call_id, last'.result[1].answer)
                       /\ last'.stored = <<FALSE, FALSE>> => calls' = calls
               /\ (last'.op = "complete" /\ ~last'.result) => calls' = calls
               /\ (last'.op = "complete" /\ last'.result)
                    => calls'[last'.call_id].status = "completed"]_vars

\* C31 witness: on a failing store, process_question has returned its answer
\* for a call whose transcript still holds the greeting alone.
C31_Witness ==
    /\ faults
    /\ last.op = "process"
    /\ last.result # None
    /\ last.stored = <<FALSE, FALSE>>
    /\ last.result[1].answer = "Our hours are " \o SALON_HOURS
    /\ Len(calls[last.call_id].transcript) = 1

\* C35: knowledge entries are backed by a resolved escalation: every stored
\* knowledge entry whose source is escalation e finds the stored escalation e
\* resolved with the answer of the entry, whatever the interleaving of
\* resolutions, sweeper ticks and failed writes.
C35_EntriesBackedByResolved ==
    \A k \in 1..Len(knowledge) :
        knowledge[k].source_request_id # None
            => LET e == knowledge[k].source_request_id[1]
               IN  /\ e \in RequestIds
                   /\ helpRequests[e].status = "resolved"
                   /\ helpRequests[e].answer = Some(knowledge[k].answer)

(***************************************************************************)
(* Properties of shutdown.                                                 *)
(***************************************************************************)
\* C32: when cleanup() has completed, the listener task has ended and makes
\* no further connection attempt and handles no further event, on_call_ended
\* has been invoked for every call that was tracked, and the table of active
\* calls is empty.
C32_CleanupEndsEverything ==
    [][/\ last'.op = "cleanup" /\ last' # last
            => /\ listener' = "cancelled"
               /\ active_calls' = <<>>
               /\ \A i \in 1..Len(active_calls) :
                     \E k \in 1..Len(last'.callbacks) :
                        /\ last'.callbacks[k].name = "on_call_ended"
                        /\ last'.callbacks[k].call_id = active_calls[i].call_id
       /\ listener = "cancelled"
            => /\ listener' = "cancelled"
               /\ active_calls' = <<>>
               /\ last'.op \notin {"connect", "message", "wait", "drop"}]_vars

\* C32 witness: cleanup() has run while the listener was receiving and two
\* calls were tracked.
C32_Witness ==
    /\ last.op = "cleanup"
    /\ Len(last.tracked) = 2
    /\ Len(last.callbacks) = 2
    /\ listener = "cancelled"
    /\ now > StartTime


\* C33: the sweeper is cancelled at shutdown: once the shutdown handler has
\* completed, the sweeper runs no further tick and writes nothing more to the
\* store.
C33_NoTickAfterShutdown ==
    [][listener = "cancelled"
            => /\ ~(last'.op = "sweep" /\ last' # last)
               /\ helpRequests' = helpRequests]_vars

\* An event the listener is to ignore: no type, a type it does not know, a
\* published track that is not audio, a participant joining that is not
\* tagged as a SIP call, or a participant leaving whose identity is that of no
\* tracked call.
IsIgnored(message, ac) ==
    /\ message.json /\ message.object
    /\ \/ message.type = None
       \/ message.type \notin {Some("participant_joined"), Some("participant_left"),
                               Some("track_published")}
       \/ message.type = Some("track_published") /\ message.track # Some("audio")
       \/ /\ message.type = Some("participant_joined")
          /\ \/ message.participant.kind # "object"
             \/ message.participant.metadata.kind # "object"
             \/ message.participant.metadata.type # Some("sip")
       \/ /\ message.type = Some("participant_left")
          /\ \/ message.participant.kind # "object"
             \/ \A i \in 1..Len(ac) :
                    ac[i].participant_id # Some(message.participant.identity)

\* C34: ignored events change nothing: an event with no type, of an unknown
\* type, a track-published event for a non-audio track, a participant-joined
\* not tagged as a SIP call, or a participant-left whose identity matches no
\* tracked call leaves the active calls and the call ledger unchanged and
\* invokes no callback.
C34_IgnoredEventsChangeNothing ==
    [][(last' # last /\ last'.op = "message" /\ IsIgnored(last'.message, active_calls))
            => /\ active_calls' = active_calls
               /\ calls' = calls
               /\ last'.callbacks = <<>>]_vars

\* C36: on_call_ended is invoked at most once per tracked call: once a
\* participant-left event has ended a call, no later participant-left,
\* end_call or cleanup() invokes on_call_ended for that call or changes the
\* duration recorded for it.
C36_EndedOnce ==
    [][\A i \in 1..Len(active_calls) :
          active_calls[i].status = "ended"
            => /\ last' # last /\ last'.op \in {"message", "end_call", "cleanup"}
                    => \A k \in 1..Len(last'.callbacks) :
                          ~ /\ last'.callbacks[k].name = "on_call_ended"
                            /\ last'.callbacks[k].call_id = active_calls[i].call_id
               /\ active_calls[i].call_id \in DOMAIN calls
                    => calls'[active_calls[i].call_id].duration
                          = calls[active_calls[i].call_id].duration]_vars

(***************************************************************************)
(* Properties of the audio processor.                                      *)
(***************************************************************************)
\* C38: replacing an audio stream keeps the new one running: the stream that
\* is registered for a call stays in processing state until stop_processing
\* is called for the call, however the exit of the loop of a replaced stream
\* interleaves with the new registration.
C38_RegisteredStreamProcessing ==
    \A c \in DOMAIN active_streams : streams[active_streams[c]].processing

\* The silence timers of a stream that have not ended.
Outstanding(s) ==
    {t \in 1..Len(timers) :
        timers[t].owner = s /\ timers[t].pc \in {"sleeping", "transcribing"}}

\* C39: silence timers release cleanly: no transcription callback is invoked
\* for a stream after stop_processing has completed for it, whether its timer
\* was sleeping or transcribing then, and a stream has at most one silence
\* timer outstanding at any time.
C39_TimersRelease ==
    /\ last.op = "transcribed"
            => \A k \in 1..Len(last.callbacks) :
                  /\ last.call_id \in DOMAIN active_streams
                  /\ active_streams[last.call_id] = last.callbacks[k].stream
    /\ \A s \in 1..Len(streams) : Cardinality(Outstanding(s)) <= 1

(***************************************************************************)
(* Properties of the sweeper.                                              *)
(***************************************************************************)
PendingTimedOut(r) ==
    /\ r \in RequestIds
    /\ helpRequests[r].status = "pending"
    /\ Age(helpRequests[r]) > HELP_REQUEST_TIMEOUT_SECONDS

MarkedUnresolved(r) ==
    /\ r \in RequestIds
    /\ helpRequests[r].status = "unresolved"

\* C19: a tick whose store query or writes fail does not end the sweeper, and
\* once the store has recovered for good, every escalation that is pending
\* and older than the timeout is eventually marked unresolved.
C19_SweeperSurvives ==
    /\ [](sweeper = "running")
    /\ (<>[](~faults))
            => \A r \in 1..MaxRequests :
                    PendingTimedOut(r) ~> MarkedUnresolved(r)

\* C19 witness: right after a failed tick, a tick has marked a timed-out
\* escalation unresolved.
C19_Witness ==
    /\ last.op = "sweep"
    /\ last.after_failure
    /\ ~last.failed
    /\ last.count > 0
    /\ ~faults
    /\ sweeper = "running"
    /\ \E r \in RequestIds : helpRequests[r].status = "unresolved"

C20_ResolveUnknownId ==
    [][(last'.op = "resolve" /\ last'.request_id \notin RequestIds)
            => /\ last'.result = None
               /\ last'.messages = <<>>
               /\ helpRequests' = helpRequests
               /\ knowledge' = knowledge
               /\ calls' = calls]_vars

\* C20 witness: resolve has returned none for an id the ledger does not
\* hold, while the ledger holds another escalation.
C20_Witness ==
    /\ last.op = "resolve"
    /\ last.request_id \notin RequestIds
    /\ last.result = None
    /\ last.messages = <<>>
    /\ Len(helpRequests) > 0

====
